---- MODULE Spec2Model ----
(***************************************************************************)
(* Model of the two command-line tools of the repository:                  *)
(*   moodle.py  - roster matcher and batch packer (specification Spec)     *)
(*   prep.py    - page splitter and renamer      (specification SpecPrep)  *)
(* Strings are modelled as sequences of one-character strings.             *)
(***************************************************************************)
EXTENDS Integers, Sequences, FiniteSets, TLC

VARIABLES
    \* ---- moodle.py ----
    files,              \* sorted listing of the source directory (line 75)
    st_size,            \* size in bytes of every listed file
    roster,             \* the name field of every CSV row, in CSV order
    row_idx,            \* number of rows the reader has delivered
    batch_number,       \* line 77
    current_batch_size, \* line 78
    file_counter,       \* line 79
    current_dest_dir,   \* number n of the directory {dest_base}_{n}
    dirs,               \* dirs[n]: the file names in directory {dest_base}_{n}
    placed,             \* placed[n]: the copies made into directory n, in order
    archives,           \* the calls of shutil.make_archive, in order
    missing,            \* the "[MISSING]" lines printed
    search_log,         \* the calls of search_file and their results
    summary,            \* the two numbers printed at lines 149-150
    pc,                 \* "loop", "done" or "error"
    \* ---- prep.py ----
    content,            \* last name of every roster row (lines 125-127, 139-142)
    scans,              \* sorted listing of the scans: one document per file
    exclude,            \* args.exclude
    add_page_copies,    \* whether PdfWriter.add_page snapshots the page
    p_i,                \* number of roster rows consumed by the loop
    p_file_counter,     \* line 133
    dest_writes,        \* the writes to the destination directory, in order
    p_pc                \* "loop", "done" or "error"

mvars == <<files, st_size, roster, row_idx, batch_number, current_batch_size,
           file_counter, current_dest_dir, dirs, placed, archives, missing,
           search_log, summary, pc>>
pvars == <<content, scans, exclude, add_page_copies, p_i, p_file_counter,
           dest_writes, p_pc>>
vars == <<mvars, pvars>>

\* ------------------------------------------------------------------------
\* Bounds of the model
\* ------------------------------------------------------------------------
MaxRows == 4
MaxPrepRows == 3
MaxScans == 2
MaxPages == 4

\* ------------------------------------------------------------------------
\* Strings
\* ------------------------------------------------------------------------
None == <<"None">>

\* Code points of the characters the model uses.
Ord(c) ==
    CASE c = "\t" -> 9   [] c = " " -> 32  [] c = "\"" -> 34 [] c = "7" -> 55
      [] c = "A" -> 65   [] c = "M" -> 77  [] c = "a" -> 97  [] c = "b" -> 98
      [] c = "d" -> 100  [] c = "i" -> 105 [] c = "m" -> 109 [] c = "z" -> 122

\* str.lower() on one character.
LowerChar(c) ==
    CASE c = "A" -> "a" [] c = "M" -> "m" [] OTHER -> c

lower(s) == [k \in 1..Len(s) |-> LowerChar(s[k])]

IsSpace(c) == c \in {" ", "\t"}

IsDigit(c) == c \in {"7"}

RECURSIVE lstrip(_)
lstrip(s) == IF s # <<>> /\ IsSpace(Head(s)) THEN lstrip(Tail(s)) ELSE s

RECURSIVE rstrip(_)
rstrip(s) ==
    IF s # <<>> /\ IsSpace(s[Len(s)]) THEN rstrip(SubSeq(s, 1, Len(s) - 1)) ELSE s

\* str.strip()
strip(s) == rstrip(lstrip(s))

\* s.split(" ")[0]
RECURSIVE first_token(_)
first_token(s) ==
    IF s = <<>> \/ Head(s) = " " THEN <<>> ELSE <<Head(s)>> \o first_token(Tail(s))

NotQuote(c) == c # "\""

\* s.replace('"', '')
remove_quotes(s) == SelectSeq(s, NotQuote)

\* "".join(re.findall(r'\d+', s))
digits(s) == SelectSeq(s, IsDigit)

\* str.startswith
startswith(s, prefix) ==
    Len(prefix) <= Len(s) /\ SubSeq(s, 1, Len(prefix)) = prefix

\* Python's string order: lexicographic by code point.
RECURSIVE StrLess(_, _)
StrLess(s, t) ==
    IF t = <<>> THEN FALSE
    ELSE IF s = <<>> THEN TRUE
    ELSE IF Ord(Head(s)) # Ord(Head(t)) THEN Ord(Head(s)) < Ord(Head(t))
    ELSE StrLess(Tail(s), Tail(t))

\* sorted(S)
RECURSIVE sorted(_)
sorted(S) ==
    IF S = {} THEN <<>>
    ELSE LET m == CHOOSE x \in S : \A y \in S \ {x} : StrLess(x, y)
         IN  <<m>> \o sorted(S \ {m})

\* ------------------------------------------------------------------------
\* moodle.py
\* ------------------------------------------------------------------------
MAX_BATCH_SIZE_MB == 100
MAX_BATCH_SIZE_BYTES == MAX_BATCH_SIZE_MB * 1024 * 1024

HalfCapacity == MAX_BATCH_SIZE_BYTES \div 2

\* The file sizes the model draws from: empty, exactly half the capacity (two
\* of them fill a batch exactly), just over half, and larger than a batch.
Sizes == {0, HalfCapacity, HalfCapacity + 1, MAX_BATCH_SIZE_BYTES + 1}

\* The names a source directory may hold: "Ma", "b", "mab".
FileUniverse == { <<"M", "a">>, <<"b">>, <<"m", "a", "b">> }

\* The values of the name column: "", `MA" b`, "b<TAB> z", "z".
NameFields == { <<>>,
                <<"M", "A", "\"", " ", "b">>,
                <<"b", "\t", " ", "z">>,
                <<"z">> }

\* The value of the identifier column of every row: "id7".
IdField == <<"i", "d", "7">>

RECURSIVE SeqsUpTo(_, _)
SeqsUpTo(S, n) ==
    IF n = 0 THEN { <<>> }
    ELSE LET shorter == SeqsUpTo(S, n - 1)
         IN  shorter \cup { Append(q, x) : q \in shorter, x \in S }

RECURSIVE search_from(_, _, _)
search_from(search_term, file_list, k) ==
    IF k > Len(file_list) THEN None
    ELSE IF startswith(lower(file_list[k]), search_term) THEN file_list[k]
    ELSE search_from(search_term, file_list, k + 1)

RECURSIVE search_last(_, _, _)
search_last(search_term, file_list, k) ==
    IF k < 1 THEN None
    ELSE IF startswith(lower(file_list[k]), search_term) THEN file_list[k]
    ELSE search_last(search_term, file_list, k - 1)

search_file_last(starting_string, file_list) ==
    search_last(strip(lower(starting_string)), file_list, Len(file_list))

search_file(starting_string, file_list) ==
    search_from(strip(lower(starting_string)), file_list, 1)

full_name_of(field) == strip(field)

last_name_of(field) == remove_quotes(first_token(full_name_of(field)))

moodle_number_of(field) == digits(field)

\* f"{full_name}_{moodle_number}_assignsubmission_file_{original_filename}"
moodle_filename(full_name, moodle_number, original_filename) ==
    full_name \o <<"_">> \o moodle_number
              \o <<"_assignsubmission_file_">> \o original_filename

OverflowsAfterAdding(batch_size, file_size) ==
    batch_size > MAX_BATCH_SIZE_BYTES

\* current_batch_size + file_size > MAX_BATCH_SIZE_BYTES
Overflows(batch_size, file_size) ==
    batch_size + file_size > MAX_BATCH_SIZE_BYTES

\* shutil.make_archive(str(current_dest_dir), 'zip', current_dest_dir)
make_archive(d) ==
    Append(archives, [dir |-> d, content |-> dirs[d], copies |-> Len(placed[d])])

FinalBatchHasBytes == current_batch_size > 0

\* any(current_dest_dir.iterdir())
FinalDirNonEmpty == dirs[current_dest_dir] # {}

MInit ==
    /\ \E S \in SUBSET FileUniverse :
          /\ files = sorted(S)
          /\ st_size \in [S -> Sizes]
    /\ roster \in SeqsUpTo(NameFields, MaxRows)
    /\ row_idx = 0
    /\ batch_number = 1
    /\ current_batch_size = 0
    /\ file_counter = 0
    /\ current_dest_dir = 1
    /\ dirs = <<{}>>
    /\ placed = << <<>> >>
    /\ archives = <<>>
    /\ missing = <<>>
    /\ search_log = <<>>
    /\ summary = <<>>
    /\ pc = "loop"

PrepIdle ==
    /\ content = <<>>
    /\ scans = <<>>
    /\ exclude = <<>>
    /\ add_page_copies = TRUE
    /\ p_i = 0
    /\ p_file_counter = 0
    /\ dest_writes = <<>>
    /\ p_pc = "done"

Init == MInit /\ PrepIdle

HasRow == pc = "loop" /\ row_idx < Len(roster)

Row == roster[row_idx + 1]

\* line 110: if not row.get(name_col): continue
SkipEmptyRow ==
    /\ HasRow
    /\ Row = <<>>
    /\ row_idx' = row_idx + 1
    /\ UNCHANGED <<files, st_size, roster, batch_number, current_batch_size,
                   file_counter, current_dest_dir, dirs, placed, archives,
                   missing, search_log, summary, pc>>
    /\ UNCHANGED pvars

MissingRowCounted ==
    /\ HasRow
    /\ Row # <<>>
    /\ search_file(last_name_of(Row), files) = None
    /\ row_idx' = row_idx + 1
    /\ file_counter' = file_counter + 1
    /\ search_log' = Append(search_log,
                            [arg |-> last_name_of(Row), result |-> None])
    /\ missing' = Append(missing, full_name_of(Row))
    /\ UNCHANGED <<files, st_size, roster, batch_number, current_batch_size,
                   current_dest_dir, dirs, placed, archives, summary, pc>>
    /\ UNCHANGED pvars

\* lines 113-117 and 140-141: no file matches the row
MissingRow ==
    /\ HasRow
    /\ Row # <<>>
    /\ search_file(last_name_of(Row), files) = None
    /\ row_idx' = row_idx + 1
    /\ search_log' = Append(search_log,
                            [arg |-> last_name_of(Row), result |-> None])
    /\ missing' = Append(missing, full_name_of(Row))
    /\ UNCHANGED <<files, st_size, roster, batch_number, current_batch_size,
                   file_counter, current_dest_dir, dirs, placed, archives,
                   summary, pc>>
    /\ UNCHANGED pvars

\* lines 113-139: a file matches the row
MatchedRow ==
    /\ HasRow
    /\ Row # <<>>
    /\ LET full_name == full_name_of(Row)
           moodle_number == moodle_number_of(IdField)
           original_filename == search_file(last_name_of(Row), files)
       IN
       /\ original_filename # None
       /\ LET file_size == st_size[original_filename]
              full == Overflows(current_batch_size, file_size)
              \* lines 124-132: zip the full batch and set up a new one
              archives1 == IF full THEN make_archive(current_dest_dir)
                                   ELSE archives
              batch_number1 == IF full THEN batch_number + 1 ELSE batch_number
              size1 == IF full THEN 0 ELSE current_batch_size
              dest1 == IF full THEN batch_number1 ELSE current_dest_dir
              dirs1 == IF full THEN Append(dirs, {}) ELSE dirs
              placed1 == IF full THEN Append(placed, <<>>) ELSE placed
              name == moodle_filename(full_name, moodle_number, original_filename)
          IN
          /\ archives' = archives1
          /\ batch_number' = batch_number1
          /\ current_dest_dir' = dest1
          \* lines 135-136: shutil.copyfile
          /\ dirs' = [dirs1 EXCEPT ![dest1] = @ \cup {name}]
          /\ placed' = [placed1 EXCEPT ![dest1] =
                            Append(@, [name |-> name, size |-> file_size])]
          \* lines 138-139
          /\ current_batch_size' = size1 + file_size
          /\ file_counter' = file_counter + 1
          /\ search_log' = Append(search_log, [arg |-> last_name_of(Row),
                                               result |-> original_filename])
    /\ row_idx' = row_idx + 1
    /\ UNCHANGED <<files, st_size, roster, missing, summary, pc>>
    /\ UNCHANGED pvars

\* lines 121, 136, 152-153: stat or copyfile raises; the run ends with the
\* "Critical error" message.
CriticalError ==
    /\ HasRow
    /\ Row # <<>>
    /\ search_file(last_name_of(Row), files) # None
    /\ pc' = "error"
    /\ UNCHANGED <<files, st_size, roster, row_idx, batch_number,
                   current_batch_size, file_counter, current_dest_dir, dirs,
                   placed, archives, missing, search_log, summary>>
    /\ UNCHANGED pvars

\* lines 143-150: the final zip and the summary
Finalize ==
    /\ pc = "loop"
    /\ row_idx = Len(roster)
    /\ archives' = IF FinalDirNonEmpty THEN make_archive(current_dest_dir)
                                       ELSE archives
    /\ summary' = <<file_counter, batch_number>>
    /\ pc' = "done"
    /\ UNCHANGED <<files, st_size, roster, row_idx, batch_number,
                   current_batch_size, file_counter, current_dest_dir, dirs,
                   placed, missing, search_log>>
    /\ UNCHANGED pvars

Next ==
    \/ SkipEmptyRow
    \/ MissingRow
    \/ MatchedRow
    \/ CriticalError
    \/ Finalize

Spec == Init /\ [][Next]_vars

\* ------------------------------------------------------------------------
\* prep.py
\* ------------------------------------------------------------------------
\* mediabox.upper_right of the pages of a scan: A4 portrait, A3 landscape,
\* and a square page (width = height).
Shapes == { <<595, 842>>, <<1190, 842>>, <<842, 842>> }

\* A scanned document: its number of pages and the size of its pages.
Documents == [n : 1..MaxPages, shape : Shapes]

\* The last names lines 137-142 derive from the roster rows: "b", "c".
LastNames == { <<"b">>, <<"c">> }

\* The values of --exclude: nothing, or "ab".
ExcludeLists == { <<>>, << <<"a", "b">> >> }

\* Python's `needle in haystack` on strings.
Contains(haystack, needle) ==
    \E k \in 0..(Len(haystack) - Len(needle)) :
        SubSeq(haystack, k + 1, k + Len(needle)) = needle

\* any(last_name in name for name in exclude)
Excluded(last_name) ==
    \E k \in 1..Len(exclude) : Contains(exclude[k], last_name)

FullBox(width, height) ==
    [lower_left |-> <<0, 0>>, upper_right |-> <<width, height>>]

\* lines 46-47 and 56-57
RightHalf(width, height) ==
    [lower_left |-> <<width \div 2, 0>>, upper_right |-> <<width, height>>]

\* lines 51-52 and 61-62
LeftHalf(width, height) ==
    [lower_left |-> <<0, 0>>, upper_right |-> <<width \div 2, height>>]

\* The pages of a document as the reader delivers them, pages numbered from 0.
PagesOf(doc) ==
    [k \in 1..doc.n |-> [page |-> k - 1,
                         mediabox |-> FullBox(doc.shape[1], doc.shape[2])]]

\* writer.add_page(page): the writer takes the page with the mediabox it has
\* at this moment.
add_page(writer, page, boxes) ==
    Append(writer, [page |-> page, mediabox |-> boxes[page]])

\* lines 38-63: the pairs from `index` on. boxes[p] is the mediabox of the
\* reader's page object p, which the loop mutates in place.
RECURSIVE split_pairs(_, _, _, _, _, _)
split_pairs(index, pairs, width, height, boxes, writer) ==
    IF index >= pairs THEN [boxes |-> boxes, writer |-> writer]
    ELSE LET page_front == 2 * index
             page_back == 2 * index + 1
             b1 == [boxes EXCEPT ![page_front] = RightHalf(width, height)]
             w1 == add_page(writer, page_front, b1)
             b2 == [b1 EXCEPT ![page_back] = LeftHalf(width, height)]
             w2 == add_page(w1, page_back, b2)
             b3 == [b2 EXCEPT ![page_back] = RightHalf(width, height)]
             w3 == add_page(w2, page_back, b3)
             b4 == [b3 EXCEPT ![page_front] = LeftHalf(width, height)]
             w4 == add_page(w3, page_front, b4)
         IN  split_pairs(index + 1, pairs, width, height, b4, w4)

\* writer.write(f): when add_page kept a copy of the page, every output page
\* has the mediabox it was added with; when add_page kept the reader's page
\* object itself, every output page has the mediabox the object ends with.
written_pages(writer, boxes, copies) ==
    IF copies THEN writer
    ELSE [k \in 1..Len(writer) |->
              [page |-> writer[k].page, mediabox |-> boxes[writer[k].page]]]

\* line 32: width < height
IsPortrait(width, height) == width < height

\* lines 25-68. raised: reader.pages[1] does not exist (IndexError).
split_exam(doc, copies) ==
    IF doc.n < 2 THEN [raised |-> TRUE, ret |-> 0, output |-> None]
    ELSE LET width == doc.shape[1]
             height == doc.shape[2]
         IN  IF IsPortrait(width, height)
             THEN [raised |-> FALSE, ret |-> 0, output |-> None]
             ELSE LET boxes0 == [p \in 0..(doc.n - 1) |-> FullBox(width, height)]
                      end == split_pairs(0, doc.n \div 2, width, height,
                                         boxes0, <<>>)
                  IN  [raised |-> FALSE, ret |-> 1,
                       output |-> written_pages(end.writer, end.boxes, copies)]

\* line 146
dest_exam_file(last_name) == last_name \o <<".pdf">>

PInit ==
    /\ content \in SeqsUpTo(LastNames, MaxPrepRows)
    /\ scans \in SeqsUpTo(Documents, MaxScans)
    /\ exclude \in ExcludeLists
    /\ add_page_copies \in BOOLEAN
    /\ p_i = 0
    /\ p_file_counter = 0
    /\ dest_writes = <<>>
    /\ p_pc = "loop"

MoodleIdle ==
    /\ files = <<>>
    /\ st_size = <<>>
    /\ roster = <<>>
    /\ row_idx = 0
    /\ batch_number = 1
    /\ current_batch_size = 0
    /\ file_counter = 0
    /\ current_dest_dir = 1
    /\ dirs = <<{}>>
    /\ placed = << <<>> >>
    /\ archives = <<>>
    /\ missing = <<>>
    /\ search_log = <<>>
    /\ summary = <<>>
    /\ pc = "idle"

InitPrep == PInit /\ MoodleIdle

PHasRow == p_pc = "loop" /\ p_i < Len(content)

PRow == content[p_i + 1]

\* line 145: files[file_counter] is read for every row, before the exclusion
\* test; past the end of the listing it raises IndexError.
ListingExhausted ==
    /\ PHasRow
    /\ p_file_counter >= Len(scans)
    /\ p_pc' = "IndexError_files"
    /\ UNCHANGED <<content, scans, exclude, add_page_copies, p_i,
                   p_file_counter, dest_writes>>
    /\ UNCHANGED mvars

ExcludedRowCounted ==
    /\ PHasRow
    /\ p_file_counter < Len(scans)
    /\ Excluded(PRow)
    /\ p_i' = p_i + 1
    /\ p_file_counter' = p_file_counter + 1
    /\ UNCHANGED <<content, scans, exclude, add_page_copies, dest_writes, p_pc>>
    /\ UNCHANGED mvars

\* lines 148, 154-155: the row is excluded
ExcludedRow ==
    /\ PHasRow
    /\ p_file_counter < Len(scans)
    /\ Excluded(PRow)
    /\ p_i' = p_i + 1
    /\ UNCHANGED <<content, scans, exclude, add_page_copies, p_file_counter,
                   dest_writes, p_pc>>
    /\ UNCHANGED mvars

\* lines 148-153: the row is worked on
WorkRow ==
    /\ PHasRow
    /\ p_file_counter < Len(scans)
    /\ ~Excluded(PRow)
    /\ LET source == p_file_counter + 1
           result == split_exam(scans[source], add_page_copies)
       IN  /\ ~result.raised
           /\ dest_writes' = Append(dest_writes,
                 [row |-> p_i + 1,
                  dest |-> dest_exam_file(PRow),
                  source |-> source,
                  by |-> IF result.ret = 0 THEN "copyfile" ELSE "split_exam",
                  pages |-> IF result.ret = 0 THEN PagesOf(scans[source])
                                              ELSE result.output])
    /\ p_file_counter' = p_file_counter + 1
    /\ p_i' = p_i + 1
    /\ UNCHANGED <<content, scans, exclude, add_page_copies, p_pc>>
    /\ UNCHANGED mvars

\* line 29 called from line 150: the scan has a single page, reader.pages[1]
\* raises IndexError and the script ends.
SplitRaises ==
    /\ PHasRow
    /\ p_file_counter < Len(scans)
    /\ ~Excluded(PRow)
    /\ split_exam(scans[p_file_counter + 1], add_page_copies).raised
    /\ p_pc' = "IndexError_pages"
    /\ UNCHANGED <<content, scans, exclude, add_page_copies, p_i,
                   p_file_counter, dest_writes>>
    /\ UNCHANGED mvars

\* line 135: the roster is exhausted
PrepDone ==
    /\ p_pc = "loop"
    /\ p_i = Len(content)
    /\ p_pc' = "done"
    /\ UNCHANGED <<content, scans, exclude, add_page_copies, p_i,
                   p_file_counter, dest_writes>>
    /\ UNCHANGED mvars

NextPrep ==
    \/ ListingExhausted
    \/ ExcludedRow
    \/ WorkRow
    \/ SplitRaises
    \/ PrepDone

SpecPrep == InitPrep /\ [][NextPrep]_vars

\* ------------------------------------------------------------------------
\* Properties of moodle.py
\* ------------------------------------------------------------------------
RECURSIVE SumSizes(_)
SumSizes(s) == IF s = <<>> THEN 0 ELSE Head(s).size + SumSizes(Tail(s))

\* The sizes of all the matched files, in the order they were copied.
RECURSIVE Flatten(_)
Flatten(ss) == IF ss = <<>> THEN <<>> ELSE Head(ss) \o Flatten(Tail(ss))

\* C1: the files placed in a batch never sum to more than the capacity plus the
\* size of the one file that overflowed into it: a batch either fits the
\* capacity or holds a single file.  The test is made before the file is added:
\* the first file of every batch after the first is one that did not fit the
\* batch before it, and the accumulator is the sum of the open batch, which was
\* restarted from 0.
C1_BatchWithinCapacity ==
    /\ Len(placed) = batch_number
    /\ current_batch_size = SumSizes(placed[batch_number])
    /\ \A b \in 1..Len(placed) :
          /\ SumSizes(placed[b]) <= MAX_BATCH_SIZE_BYTES \/ Len(placed[b]) = 1
          /\ placed[b] # <<>> =>
                SumSizes(placed[b]) <= MAX_BATCH_SIZE_BYTES + placed[b][1].size
          /\ b > 1 =>
                /\ placed[b] # <<>>
                /\ SumSizes(placed[b - 1]) + placed[b][1].size
                       > MAX_BATCH_SIZE_BYTES

\* A batch was closed by an overflowing file after it had taken two files, and
\* the file went to the next batch.
C1_Witness ==
    /\ Len(placed) >= 2
    /\ Len(placed[1]) >= 2
    /\ Len(placed[2]) >= 1

\* The number of batches a greedy accumulation needs for the sizes, in order:
\* a file joins the open batch unless accumulated + size > capacity, and then
\* opens the next one.
RECURSIVE GreedyFrom(_, _, _, _)
GreedyFrom(sizes, k, accumulated, batches) ==
    IF k > Len(sizes) THEN batches
    ELSE IF batches = 0 THEN GreedyFrom(sizes, k + 1, sizes[k].size, 1)
    ELSE IF accumulated + sizes[k].size > MAX_BATCH_SIZE_BYTES
         THEN GreedyFrom(sizes, k + 1, sizes[k].size, batches + 1)
    ELSE GreedyFrom(sizes, k + 1, accumulated + sizes[k].size, batches)

GreedyBatches(sizes) == GreedyFrom(sizes, 1, 0, 0)

\* C2: a run that completes normally produces as many archives as the greedy
\* accumulation of the matched files needs batches.
C2_ArchivesEqualGreedy ==
    pc = "done" => Len(archives) = GreedyBatches(Flatten(placed))

\* The file index the search scanned is sorted and free of duplicates.
FilesSorted ==
    \A x, y \in 1..Len(files) : x < y => StrLess(files[x], files[y])

\* The lower-cased name starts with the term, character by character.
PrefixOfLowered(term, name) ==
    /\ Len(term) <= Len(name)
    /\ \A k \in 1..Len(term) : LowerChar(name[k]) = term[k]

\* C3: search_file returns the first entry of the sorted index whose lowered
\* name starts with the lowered, trimmed surname, and None exactly when no
\* entry has that prefix.
C3_FirstPrefixMatch ==
    /\ FilesSorted
    /\ \A n \in 1..Len(search_log) :
          LET term == strip(lower(search_log[n].arg))
              hits == { x \in 1..Len(files) : PrefixOfLowered(term, files[x]) }
              result == search_log[n].result
          IN  /\ result = None <=> hits = {}
              /\ hits # {} =>
                    \E x \in hits : /\ result = files[x]
                                    /\ \A y \in hits : x <= y

\* A search found a file although a later entry has the prefix too, with an
\* argument that the lowering and the trimming change.
C3_Witness ==
    \E n \in 1..Len(search_log) :
        LET term == strip(lower(search_log[n].arg))
            hits == { x \in 1..Len(files) : PrefixOfLowered(term, files[x]) }
        IN  /\ Cardinality(hits) >= 2
            /\ search_log[n].result # None
            /\ term # search_log[n].arg

\* The archives made of directory d.
ArchivesOf(d) == { n \in 1..Len(archives) : archives[n].dir = d }

\* C4: no file is copied into a batch after the batch was compressed, and when
\* the run has consumed every row, every batch that received a file has been
\* compressed exactly once, with every file copied into it.
C4_EveryBatchArchivedOnce ==
    /\ \A n \in 1..Len(archives) :
          /\ archives[n].copies = Len(placed[archives[n].dir])
          /\ archives[n].content = dirs[archives[n].dir]
    /\ pc = "done" =>
          \A b \in 1..Len(placed) :
              placed[b] # <<>> =>
                  /\ Cardinality(ArchivesOf(b)) = 1
                  /\ \A k \in 1..Len(placed[b]) :
                        \A n \in ArchivesOf(b) :
                            placed[b][k].name \in archives[n].content

\* A finished run with a batch closed by overflow and a final batch that holds
\* only an empty file.
C4_Witness ==
    /\ pc = "done"
    /\ Len(placed) >= 2
    /\ placed[1] # <<>>
    /\ placed[Len(placed)] # <<>>
    /\ current_batch_size = 0

\* No entry of the index has the row's surname as a prefix, or the name field
\* is empty.
RowWithoutFile(field) ==
    \/ field = <<>>
    \/ \A x \in 1..Len(files) :
          ~PrefixOfLowered(strip(lower(last_name_of(field))), files[x])

\* C7: a row with an empty name or without a matching file changes no batch
\* state and the run goes on with the next row; the row with a name is
\* reported as missing, and nothing else is.
C7_UnmatchedRowFrame ==
    [][ (HasRow /\ RowWithoutFile(Row)) =>
          /\ UNCHANGED <<batch_number, current_batch_size, current_dest_dir,
                         file_counter, dirs, placed, archives, summary>>
          /\ row_idx' = row_idx + 1
          /\ pc' = "loop"
          /\ missing' = IF Row = <<>> THEN missing
                        ELSE Append(missing, full_name_of(Row)) ]_vars

\* Files were copied, then a row without a file and a row without a name
\* went by.
C7_Witness ==
    /\ file_counter >= 1
    /\ row_idx >= 3
    /\ RowWithoutFile(roster[row_idx])
    /\ roster[row_idx] # <<>>
    /\ roster[row_idx - 1] = <<>>
    /\ ~RowWithoutFile(roster[row_idx - 2])

\* C8: the archive count of the summary is the number of archives created.
C8_SummaryCountsArchives ==
    pc = "done" => summary[2] = Len(archives)

\* C9: every archive holds at least one copied file.
C9_NoEmptyArchive ==
    \A n \in 1..Len(archives) : archives[n].copies >= 1

\* ------------------------------------------------------------------------
\* Properties of prep.py
\* ------------------------------------------------------------------------
\* The four crops of pair `index`, in the reading order of the folded sheet.
PairCrops(index, width, height) ==
    << [page |-> 2 * index,     mediabox |-> RightHalf(width, height)],
       [page |-> 2 * index + 1, mediabox |-> LeftHalf(width, height)],
       [page |-> 2 * index + 1, mediabox |-> RightHalf(width, height)],
       [page |-> 2 * index,     mediabox |-> LeftHalf(width, height)] >>

\* C5: a split document has 4 * floor(n / 2) pages, and the pages of every pair
\* are (front, right), (back, left), (back, right), (front, left), each with
\* its own crop.
C5_FourCropsPerPair ==
    \A k \in 1..Len(dest_writes) :
        dest_writes[k].by = "split_exam" =>
            LET doc == scans[dest_writes[k].source]
                out == dest_writes[k].pages
            IN  /\ Len(out) = 4 * (doc.n \div 2)
                /\ \A index \in 0..((doc.n \div 2) - 1) :
                      SubSeq(out, 4 * index + 1, 4 * index + 4)
                          = PairCrops(index, doc.shape[1], doc.shape[2])

\* The rows among the first n that are not excluded.
Worked(n) == { r \in 1..n : ~Excluded(content[r]) }

\* C6: every row that is not excluded gets its destination file written
\* exactly once: by a copy of the unchanged source when page 1 is portrait,
\* by split_exam otherwise.
C6_OneWritePerRow ==
    /\ p_pc # "IndexError_pages"
    /\ Len(dest_writes) = Cardinality(Worked(p_i))
    /\ \A k \in 1..Len(dest_writes) :
          LET doc == scans[dest_writes[k].source]
          IN  IF doc.shape[1] < doc.shape[2]
              THEN /\ dest_writes[k].by = "copyfile"
                   /\ dest_writes[k].pages = PagesOf(doc)
              ELSE dest_writes[k].by = "split_exam"

\* C10: file_counter counts the rows worked on; the k-th of them (from 0) is
\* paired with entry k of the listing; and the index read at line 145 stays
\* inside the listing when the roster is no longer than the listing.
C10_CounterPairsRowsWithFiles ==
    /\ p_file_counter = Cardinality(Worked(p_i))
    /\ \A k \in 1..Len(dest_writes) :
          /\ dest_writes[k].source = k
          /\ dest_writes[k].row \in Worked(p_i)
          /\ Cardinality(Worked(dest_writes[k].row)) = k
    /\ Len(content) <= Len(scans) =>
          /\ p_pc # "IndexError_files"
          /\ PHasRow => p_file_counter < Len(scans)

\* A finished run whose roster fits the listing: the first row was excluded
\* and the second, the first one worked on, took the first scan.
C10_Witness ==
    /\ p_pc = "done"
    /\ Len(content) >= 2
    /\ Len(content) <= Len(scans)
    /\ Excluded(content[1])
    /\ Len(dest_writes) >= 1
    /\ dest_writes[1].row = 2
    /\ dest_writes[1].source = 1

====
